---- MODULE Spec2Model ----
(***************************************************************************)
(* The capture / review / batch-analysis screen of the portal              *)
(* (src/CameraView.tsx) and the navigation and history state of the        *)
(* application shell around it (src/App.tsx), as a state machine.          *)
(*                                                                         *)
(* One action stands for one event of the browser's event loop: a user     *)
(* event with the handler it runs, the re-render and the effects that      *)
(* follow it, or the settlement of one promise (getUserMedia, one          *)
(* analyzeImageWithPi call) with the continuation that runs on it.         *)
(***************************************************************************)
EXTENDS Integers, Sequences, FiniteSets, TLC

(***************************************************************************)
(* Bounds of the model.                                                    *)
(***************************************************************************)
MaxCaptures == 3    \* photographs taken over a run
MaxStreams == 2     \* media streams handed out by getUserMedia over a run
MaxPending == 2     \* getUserMedia calls outstanding at the same time
MaxCrops == 1       \* crops applied to one photograph
NumVerdicts == 2    \* distinct results the analyzer can answer with
MaxCropStore == 2   \* photographs in the store, in the sessions that cap it

(***************************************************************************)
(* Values.                                                                 *)
(***************************************************************************)
NoStream == 0       \* the null of useState<MediaStream | null>(null)
NoError == "null"
CameraError == "Unable to access camera. Please check permissions."
BatchError == "Connection to Raspberry Pi failed during batch analysis."
Verdicts == 1..NumVerdicts

VARIABLES
    view,             \* App: the ViewState shown
    analysisHistory,  \* App: AnalysisResult[]
    stream,           \* CameraView: the MediaStream held in state, or NoStream
    capturedImages,   \* CameraView: CapturedImage[]
    isAnalyzing,      \* CameraView
    error,            \* CameraView: the message shown, or NoError
    viewMode,         \* CameraView: "camera" or "review"
    cropTarget,       \* CameraView: <<>> (null) or <<image>>
    startPos,         \* CropModal: <<x, y>>, where the drag began
    currentPos,       \* CropModal: <<x, y>>, where the drag is
    isDrawing,        \* CropModal
    naturalSize,      \* CropModal: <<naturalWidth, naturalHeight>> of its <img>
    alerted,          \* CropModal: its last event ended in alert("Selection too small...")
    cropCanvas,       \* the canvas and drawImage call of the last crop, <<>> if none
    effectStream,     \* the `stream` seen by the closure of the effect that ran last
    videoSrc,         \* videoRef.current.srcObject, NoStream when unset or no element
    liveStreams,      \* the streams whose tracks are running
    nextStream,       \* streams handed out so far
    pendingCur,       \* getUserMedia calls pending for the mounted CameraView
    pendingOld,       \* getUserMedia calls pending for CameraViews since unmounted
    nextId,           \* photographs taken so far (the ids handed out)
    promises,         \* the analyze invocations handleBatchAnalyze is awaiting
    settled,          \* the indices of the last batch's invocations, as they completed
    batchState,       \* handleBatchAnalyze: idle, awaiting, or how it ended (delivered, failed)
    report            \* the argument of the last onAnalysisComplete call

vars == <<view, analysisHistory, stream, capturedImages, isAnalyzing, error,
          viewMode, cropTarget, effectStream, videoSrc, liveStreams, nextStream,
          pendingCur, pendingOld, nextId, promises, settled, batchState, report,
          startPos, currentPos, isDrawing, naturalSize, alerted, cropCanvas>>

appVars == <<view, analysisHistory>>
cameraVars == <<stream, effectStream, videoSrc, liveStreams, nextStream,
                pendingCur, pendingOld>>
screenVars == <<isAnalyzing, error, viewMode, cropTarget>>
batchVars == <<promises, settled, batchState, report>>
modalVars == <<startPos, currentPos, isDrawing, naturalSize, alerted>>
cropVars == <<modalVars, cropCanvas>>

Init ==
    /\ view = "LOGIN"
    /\ analysisHistory = <<>>
    /\ stream = NoStream
    /\ capturedImages = <<>>
    /\ isAnalyzing = FALSE
    /\ error = NoError
    /\ viewMode = "camera"
    /\ cropTarget = <<>>
    /\ effectStream = NoStream
    /\ videoSrc = NoStream
    /\ liveStreams = {}
    /\ nextStream = 0
    /\ pendingCur = 0
    /\ pendingOld = 0
    /\ nextId = 0
    /\ promises = <<>>
    /\ settled = <<>>
    /\ batchState = "idle"
    /\ report = <<>>
    /\ startPos = <<0, 0>>
    /\ currentPos = <<0, 0>>
    /\ isDrawing = FALSE
    /\ naturalSize = <<0, 0>>
    /\ alerted = FALSE
    /\ cropCanvas = <<>>

(***************************************************************************)
(* What is on screen.                                                      *)
(***************************************************************************)
\* The <video> element exists only in camera mode and only while no error
\* is shown; a capture reads videoRef.current.
VideoRendered == view = "CAMERA" /\ viewMode = "camera" /\ error = NoError

\* The full-screen "Analyzing Samples..." layer of review mode.
AnalyzingOverlay == viewMode = "review" /\ isAnalyzing

\* The full-screen crop dialog of review mode.
CropModalOpen == viewMode = "review" /\ cropTarget # <<>>

\* The controls of the screen can be reached by the pointer: neither layer
\* (both "fixed inset-0 z-50") lies over them.  The layers do not take the
\* <button>s beneath them out of the tab order: those stay open to the
\* keyboard unless they are disabled.
ScreenFree == ~AnalyzingOverlay /\ ~CropModalOpen

(***************************************************************************)
(* The camera feed.                                                        *)
(***************************************************************************)
\* stream.getTracks().forEach(track => track.stop()) on the stream s that
\* the calling closure sees; nothing when it sees null.
StopTracks(s, live) == live \ {s}

\* The captured frame: canvas.toDataURL of the frame the <video> shows.  A
\* <video> with no running stream attached has videoWidth = 0, the canvas
\* has no pixels and toDataURL answers "data:," (feed 0).
Frame(src, live) ==
    [feed |-> IF src \in live THEN src ELSE NoStream, crop |-> 0]

\* CropModal as it mounts (its useState initial values), which is also how
\* the model keeps its state while there is no dialog.
CropModalUnmount ==
    /\ startPos' = <<0, 0>>
    /\ currentPos' = <<0, 0>>
    /\ isDrawing' = FALSE
    /\ naturalSize' = <<0, 0>>
    /\ alerted' = FALSE

\* The frames a capture can read off the <video>.  While its stream runs,
\* the current frame; with nothing attached, none.  Once the tracks of the
\* attached stream have ended by themselves the element is left with the
\* last frame or with none, as the browser has it.
Frames(src, live) ==
    {Frame(src, live)} \cup
        (IF src # NoStream /\ src \notin live
         THEN {[feed |-> src, crop |-> 0]}
         ELSE {})

\* The screen is taken down: the cleanup of the effect that ran last calls
\* the stopCamera of its own render, and the component's state is dropped.
\* getUserMedia calls still pending belong to a dead component from now on.
CameraViewUnmount ==
    /\ liveStreams' = StopTracks(effectStream, liveStreams)
    /\ stream' = NoStream
    /\ capturedImages' = <<>>
    /\ isAnalyzing' = FALSE
    /\ error' = NoError
    /\ viewMode' = "camera"
    /\ cropTarget' = <<>>
    /\ effectStream' = NoStream
    /\ videoSrc' = NoStream
    /\ pendingOld' = pendingOld + pendingCur
    /\ pendingCur' = 0
    /\ CropModalUnmount
    /\ cropCanvas' = <<>>
    /\ UNCHANGED nextStream

\* Leaving the view `view` for another one.
LeaveView ==
    IF view = "CAMERA"
    THEN CameraViewUnmount
    ELSE UNCHANGED <<cameraVars, screenVars, capturedImages, cropVars>>

\* The user leaves the view `view`.  A batch the CameraView is awaiting is
\* not cancelled: its analyzeImageWithPi calls stay pending and the
\* continuation of handleBatchAnalyze will run for a component that is gone.
LeaveBatch ==
    /\ batchState' = IF view = "CAMERA" /\ batchState = "awaiting"
                     THEN "orphaned"
                     ELSE batchState
    /\ UNCHANGED <<promises, settled, report>>

(***************************************************************************)
(* App: navigation.                                                        *)
(***************************************************************************)
HandleLogin(success) ==
    /\ view = "LOGIN"
    /\ view' = IF success THEN "DASHBOARD" ELSE view
    /\ UNCHANGED <<analysisHistory, capturedImages, nextId>>
    /\ UNCHANGED <<cameraVars, screenVars, batchVars>>
    /\ UNCHANGED cropVars

\* Sign Out on the profile page, or onLogout of the Header.
HandleLogout ==
    /\ view # "LOGIN"
    /\ view = "CAMERA" => ScreenFree
    /\ view' = "LOGIN"
    /\ LeaveView
    /\ LeaveBatch
    /\ UNCHANGED <<analysisHistory, nextId>>

\* onProfileClick of the Header, or "Manage Account & Settings".
ProfileClick ==
    /\ view \notin {"LOGIN", "PROFILE"}
    /\ view = "CAMERA" => ScreenFree
    /\ view' = "PROFILE"
    /\ LeaveView
    /\ LeaveBatch
    /\ UNCHANGED <<analysisHistory, nextId>>

\* The "Capture Photo" card: CameraView mounts with its initial state and
\* its effect runs with viewMode = "camera": startCamera().
OpenCamera ==
    /\ view = "DASHBOARD"
    /\ pendingCur + pendingOld < MaxPending
    /\ view' = "CAMERA"
    /\ stream' = NoStream
    /\ capturedImages' = <<>>
    /\ isAnalyzing' = FALSE
    /\ error' = NoError
    /\ viewMode' = "camera"
    /\ cropTarget' = <<>>
    /\ effectStream' = NoStream
    /\ videoSrc' = NoStream
    /\ pendingCur' = pendingCur + 1
    /\ UNCHANGED <<liveStreams, nextStream, pendingOld>>
    /\ UNCHANGED <<analysisHistory, nextId, batchVars, cropVars>>

\* The "Calculation & Results" card.
OpenHistory ==
    /\ view = "DASHBOARD"
    /\ view' = "HISTORY"
    /\ UNCHANGED <<analysisHistory, capturedImages, nextId>>
    /\ UNCHANGED <<cameraVars, screenVars, batchVars>>
    /\ UNCHANGED cropVars

\* onBack of CameraView (camera mode only) and of HistoryView, and "Back to
\* Dashboard" of the profile page.
BackToDashboard ==
    /\ \/ view = "CAMERA" /\ viewMode = "camera"
       \/ view \in {"HISTORY", "PROFILE"}
    /\ view' = "DASHBOARD"
    /\ LeaveView
    /\ LeaveBatch
    /\ UNCHANGED <<analysisHistory, nextId>>

HandleClearHistory ==
    /\ view = "HISTORY"
    /\ Len(analysisHistory) # 0
    /\ analysisHistory' = <<>>
    /\ UNCHANGED <<view, capturedImages, nextId>>
    /\ UNCHANGED <<cameraVars, screenVars, batchVars>>
    /\ UNCHANGED cropVars

\* item.id of an AnalysisResult.  The results of the analyzer stand in the
\* model as the values of Verdicts, told apart by their id alone.
ResultId(item) == item

\* A history that shows the newest results first.
HistoryPrepended(prev, results) == results \o prev

\* [...prev, ...results]
HistoryAppended(prev, results) == prev \o results

\* prev.filter(item => !ids.includes(item.id))
WithoutIds(prev, ids) == SelectSeq(prev, LAMBDA item : ResultId(item) \notin ids)

\* "Delete Selected" of HistoryView, confirmed: onDeleteHistory with the ids
\* selected among the records shown.
HandleDeleteHistory(ids) ==
    /\ view = "HISTORY"
    /\ ids # {}
    /\ \A id \in ids : \E k \in 1..Len(analysisHistory) :
                             ResultId(analysisHistory[k]) = id
    /\ analysisHistory' = WithoutIds(analysisHistory, ids)
    /\ UNCHANGED <<view, capturedImages, nextId>>
    /\ UNCHANGED <<cameraVars, screenVars, batchVars>>
    /\ UNCHANGED cropVars

(***************************************************************************)
(* CropModal: the geometry of the crop dialog.                              *)
(***************************************************************************)
Min(a, b) == IF a < b THEN a ELSE b
Max(a, b) == IF a > b THEN a ELSE b
Abs(a) == IF a < 0 THEN -a ELSE a

\* canvas.width = video.videoWidth, canvas.height = video.videoHeight: the
\* size of the frames of the camera.
VideoWidth == 640
VideoHeight == 480

\* The box the <img> of the dialog may take (max-w-full, max-h-[70vh]).
MaxDisplayWidth == 256
MaxDisplayHeight == 192

\* The container of the <img> has a border (class "border"): its
\* getBoundingClientRect() is the <img> and this much on every side.
BorderWidth == 1

\* if (w < 50 || h < 50)
MinCropSize == 50

\* The size the <img> is laid out at: its natural size, scaled down
\* uniformly where it exceeds the box; nothing for an image that did not
\* decode.  size is <<naturalWidth, naturalHeight>>.
DisplayWidth(size) ==
    IF size[1] = 0 \/ size[2] = 0 THEN 0
    ELSE IF size[1] <= MaxDisplayWidth /\ size[2] <= MaxDisplayHeight THEN size[1]
    ELSE IF size[1] * MaxDisplayHeight >= size[2] * MaxDisplayWidth THEN MaxDisplayWidth
    ELSE (size[1] * MaxDisplayHeight) \div size[2]

DisplayHeight(size) ==
    IF size[1] = 0 \/ size[2] = 0 THEN 0
    ELSE IF size[1] <= MaxDisplayWidth /\ size[2] <= MaxDisplayHeight THEN size[2]
    ELSE IF size[1] * MaxDisplayHeight >= size[2] * MaxDisplayWidth
    THEN (size[2] * MaxDisplayWidth) \div size[1]
    ELSE MaxDisplayHeight

\* containerRef.current.getBoundingClientRect(), its width and height.
RectWidth(size) == DisplayWidth(size) + 2 * BorderWidth
RectHeight(size) == DisplayHeight(size) + 2 * BorderWidth

\* The pointer offsets e.clientX - rect.left and e.clientY - rect.top the
\* model draws the mouse events from: the corner of the container, a point
\* inside, the far corner of the container of a full frame, and a point on
\* either side of the container.
OffsetsX == {-1, 0, 20, MaxDisplayWidth + 2 * BorderWidth,
             MaxDisplayWidth + 2 * BorderWidth + 1}
OffsetsY == {-1, 0, 11, MaxDisplayHeight + 2 * BorderWidth,
             MaxDisplayHeight + 2 * BorderWidth + 1}

\* Math.max(0, Math.min(v, limit))
Clamp(v, limit) == Max(0, Min(v, limit))

\* handleConfirm's x, y, w and h, each as the numerator of a fraction over
\* clientWidth (scale = naturalWidth / clientWidth).
\* A crop that takes naturalHeight for the scale of the vertical axis.
CropRectPerAxis(start, current, size) ==
    [x |-> Min(start[1], current[1]) * size[1],
     y |-> Min(start[2], current[2]) * size[2],
     w |-> Abs(current[1] - start[1]) * size[1],
     h |-> Abs(current[2] - start[2]) * size[2]]

CropRect(start, current, size) ==
    [x |-> Min(start[1], current[1]) * size[1],
     y |-> Min(start[2], current[2]) * size[1],
     w |-> Abs(current[1] - start[1]) * size[1],
     h |-> Abs(current[2] - start[2]) * size[1]]

\* A size check that lets a selection pass when one side is large enough.
TooSmallOnBothSides(w, h, clientWidth) ==
    clientWidth # 0 /\ w < MinCropSize * clientWidth /\ h < MinCropSize * clientWidth

\* w < 50 || h < 50, for w and h over clientWidth.  With clientWidth = 0
\* (and naturalWidth = 0) scale is 0 / 0, w and h are NaN and both
\* comparisons are false.
TooSmall(w, h, clientWidth) ==
    clientWidth # 0 /\ (w < MinCropSize * clientWidth \/ h < MinCropSize * clientWidth)

\* The sizes a cropped image can have: canvas.width = w, canvas.height = h
\* truncate to whole pixels.
CroppedSizes ==
    LET frame == <<VideoWidth, VideoHeight>>
        points == {<<Clamp(x, RectWidth(frame)), Clamp(y, RectHeight(frame))>> :
                       x \in OffsetsX, y \in OffsetsY}
    IN  {<<CropRect(a, b, frame).w \div DisplayWidth(frame),
           CropRect(a, b, frame).h \div DisplayWidth(frame)>> :
            <<a, b>> \in {pair \in points \X points :
                 ~TooSmall(CropRect(pair[1], pair[2], frame).w,
                           CropRect(pair[1], pair[2], frame).h,
                           DisplayWidth(frame))}}

\* imgRef.current.naturalWidth and naturalHeight for the image at `url`:
\* nothing for "data:," (it does not decode), the size of the camera's
\* frames for a photograph as taken, and for a cropped photograph one of
\* the sizes a crop leaves.
NaturalSizes(url) ==
    IF url.feed = NoStream THEN {<<0, 0>>}
    ELSE IF url.crop = 0 THEN {<<VideoWidth, VideoHeight>>}
    ELSE CroppedSizes

(***************************************************************************)
(* CameraView: the feed's life cycle.                                      *)
(***************************************************************************)
\* A click on Review (either button of camera mode).  The re-render drops
\* the <video>; then the cleanup of the previous effect runs the stopCamera
\* of the render that effect belongs to, and the new effect runs the
\* stopCamera of this render.  A cropTarget left set when review mode was
\* last shown brings the crop dialog up again, newly mounted.
ShowReview ==
    /\ view = "CAMERA"
    /\ viewMode = "camera"
    /\ Len(capturedImages) > 0
    /\ viewMode' = "review"
    /\ liveStreams' = StopTracks(stream, StopTracks(effectStream, liveStreams))
    /\ stream' = NoStream
    /\ effectStream' = stream
    /\ videoSrc' = NoStream
    /\ UNCHANGED <<nextStream, pendingCur, pendingOld>>
    /\ UNCHANGED <<isAnalyzing, error, cropTarget, capturedImages>>
    /\ UNCHANGED <<appVars, nextId, batchVars>>
    /\ IF cropTarget # <<>>
       THEN /\ naturalSize' \in NaturalSizes(cropTarget[1].url)
            /\ UNCHANGED <<startPos, currentPos, isDrawing, alerted, cropCanvas>>
       ELSE UNCHANGED cropVars

\* "Back to Camera" / "Open Camera" of review mode.  The cleanup of the
\* review effect runs its stopCamera, then the new effect calls startCamera.
\* The crop dialog, if it is up, unmounts with review mode; cropTarget stays.
ShowCamera ==
    /\ view = "CAMERA"
    /\ viewMode = "review"
    /\ pendingCur + pendingOld < MaxPending
    /\ viewMode' = "camera"
    /\ liveStreams' = StopTracks(effectStream, liveStreams)
    /\ stream' = IF effectStream # NoStream THEN NoStream ELSE stream
    /\ effectStream' = stream
    /\ videoSrc' = NoStream
    /\ pendingCur' = pendingCur + 1
    /\ UNCHANGED <<nextStream, pendingOld>>
    /\ UNCHANGED <<isAnalyzing, error, cropTarget, capturedImages>>
    /\ UNCHANGED <<appVars, nextId, batchVars>>
    /\ CropModalUnmount
    /\ UNCHANGED cropCanvas

\* "Retry Camera", shown in camera mode in place of the <video> while an
\* error is shown: startCamera().
RetryCamera ==
    /\ view = "CAMERA"
    /\ viewMode = "camera"
    /\ error # NoError
    /\ pendingCur + pendingOld < MaxPending
    /\ pendingCur' = pendingCur + 1
    /\ UNCHANGED <<stream, effectStream, videoSrc, liveStreams, nextStream, pendingOld>>
    /\ UNCHANGED <<appVars, screenVars, capturedImages, nextId, batchVars>>
    /\ UNCHANGED cropVars

\* getUserMedia resolves for the mounted CameraView: the rest of
\* startCamera's try block.  videoRef.current is the <video> of the last
\* commit, null while the error panel or review mode is shown; clearing the
\* error afterwards brings up a new <video> with nothing attached.
GetUserMediaResolved ==
    /\ view = "CAMERA"
    /\ pendingCur > 0
    /\ nextStream < MaxStreams
    /\ nextStream' = nextStream + 1
    /\ liveStreams' = liveStreams \cup {nextStream'}
    /\ stream' = nextStream'
    /\ videoSrc' = IF VideoRendered THEN nextStream' ELSE NoStream
    /\ error' = NoError
    /\ pendingCur' = pendingCur - 1
    /\ UNCHANGED <<effectStream, pendingOld>>
    /\ UNCHANGED <<isAnalyzing, viewMode, cropTarget, capturedImages>>
    /\ UNCHANGED <<appVars, nextId, batchVars>>
    /\ UNCHANGED cropVars

\* getUserMedia rejects for the mounted CameraView: startCamera's catch.
\* In camera mode the error panel replaces the <video>.
GetUserMediaRejected ==
    /\ view = "CAMERA"
    /\ pendingCur > 0
    /\ error' = CameraError
    /\ videoSrc' = NoStream
    /\ pendingCur' = pendingCur - 1
    /\ UNCHANGED <<stream, effectStream, liveStreams, nextStream, pendingOld>>
    /\ UNCHANGED <<isAnalyzing, viewMode, cropTarget, capturedImages>>
    /\ UNCHANGED <<appVars, nextId, batchVars>>
    /\ UNCHANGED cropVars

\* getUserMedia settles for a CameraView that is gone: its setStream and
\* setError reach no component and its videoRef.current is null; a stream
\* it was given keeps running.
GetUserMediaLate(granted) ==
    /\ pendingOld > 0
    /\ granted => nextStream < MaxStreams
    /\ nextStream' = IF granted THEN nextStream + 1 ELSE nextStream
    /\ liveStreams' = IF granted THEN liveStreams \cup {nextStream'} ELSE liveStreams
    /\ pendingOld' = pendingOld - 1
    /\ UNCHANGED <<stream, effectStream, videoSrc, pendingCur>>
    /\ UNCHANGED <<appVars, screenVars, capturedImages, nextId, batchVars>>
    /\ UNCHANGED cropVars

\* The camera goes away under a running stream (unplugged, taken by
\* another program, permission withdrawn): its tracks end.  The component
\* listens to no event of the stream or of its tracks, so none of its state
\* changes.
TrackEnded(s) ==
    /\ s \in liveStreams
    /\ liveStreams' = liveStreams \ {s}
    /\ UNCHANGED <<stream, effectStream, videoSrc, nextStream, pendingCur, pendingOld>>
    /\ UNCHANGED <<appVars, screenVars, capturedImages, nextId, batchVars>>
    /\ UNCHANGED cropVars

\* An id made from the place in the store, (prev.length + 1).toString().
IdFromLength(taken, images) == Len(images) + 1

\* Date.now().toString() + Math.random().toString(): taken to differ from
\* every id made before, and standing here as the number of the photograph
\* among the `taken` photographs taken so far.
NewId(taken, images) == taken + 1

\* A shutter that puts the new photograph in front of the others.
CapturePhotoPrepended ==
    /\ view = "CAMERA"
    /\ viewMode = "camera"
    /\ nextId < MaxCaptures
    /\ IF VideoRendered
       THEN /\ nextId' = nextId + 1
            /\ \E url \in Frames(videoSrc, liveStreams) :
                   capturedImages' =
                       <<[id |-> NewId(nextId, capturedImages), url |-> url,
                          selected |-> TRUE]>>
                           \o capturedImages
       ELSE UNCHANGED <<nextId, capturedImages>>
    /\ UNCHANGED <<appVars, cameraVars, screenVars, batchVars>>
    /\ UNCHANGED cropVars

\* The shutter button of camera mode.  The id of a photograph is
\* Date.now().toString() + Math.random().toString(); it is taken to differ
\* from every id made before, and stands here as the number of the
\* photograph.
CapturePhoto ==
    /\ view = "CAMERA"
    /\ viewMode = "camera"
    /\ nextId < MaxCaptures
    /\ IF VideoRendered
       THEN /\ nextId' = nextId + 1
            /\ \E url \in Frames(videoSrc, liveStreams) :
                   capturedImages' = Append(capturedImages,
                       [id |-> NewId(nextId, capturedImages), url |-> url,
                        selected |-> TRUE])
       ELSE UNCHANGED <<nextId, capturedImages>>
    /\ UNCHANGED <<appVars, cameraVars, screenVars, batchVars>>
    /\ UNCHANGED cropVars

(***************************************************************************)
(* CameraView: the image store (review mode).                              *)
(***************************************************************************)
Ids(images) == [i \in 1..Len(images) |-> images[i].id]
IsSelected(img) == img.selected
SelectedImages(images) == SelectSeq(images, IsSelected)

\* A toggle that can only select.
ToggledOn(images, id) ==
    [k \in 1..Len(images) |->
        IF images[k].id = id
        THEN [images[k] EXCEPT !.selected = TRUE]
        ELSE images[k]]

\* prev.map(img => img.id === id ? { ...img, selected: !img.selected } : img)
Toggled(images, id) ==
    [k \in 1..Len(images) |->
        IF images[k].id = id
        THEN [images[k] EXCEPT !.selected = ~images[k].selected]
        ELSE images[k]]

\* A removal by position, prev.splice(prev.findIndex(...), 1): with no such
\* id the position is -1 and the last entry goes.
WithoutBySplice(images, id) ==
    IF \E k \in 1..Len(images) : images[k].id = id
    THEN SelectSeq(images, LAMBDA img : img.id # id)
    ELSE SubSeq(images, 1, Len(images) - 1)

\* prev.filter(img => img.id !== id)
Without(images, id) == SelectSeq(images, LAMBDA img : img.id # id)

\* What the caller of toggleImageSelection(id) and of
\* handleCropConfirm(id, newUrl) is told: they return nothing and throw
\* nothing, for an id that is in the store and for one that is not.
NothingReported == "nothing"
ToggleImageSelectionReport(images, id) == NothingReported
HandleCropConfirmReport(images, id, newUrl) == NothingReported

\* A click on a tile of the grid.
ToggleImageSelection(id) ==
    /\ view = "CAMERA" /\ viewMode = "review" /\ ScreenFree
    /\ \E i \in 1..Len(capturedImages) : capturedImages[i].id = id
    /\ capturedImages' = Toggled(capturedImages, id)
    /\ UNCHANGED <<appVars, cameraVars, screenVars, nextId, batchVars>>
    /\ UNCHANGED cropVars

\* The bin of a tile; window.confirm answers `confirmed`.
DeleteImage(id, confirmed) ==
    /\ view = "CAMERA" /\ viewMode = "review"
    /\ \E i \in 1..Len(capturedImages) : capturedImages[i].id = id
    /\ capturedImages' =
           IF confirmed THEN Without(capturedImages, id) ELSE capturedImages
    /\ UNCHANGED <<appVars, cameraVars, screenVars, nextId, batchVars>>
    /\ UNCHANGED cropVars

\* "Delete Selected", shown while something is selected.
DeleteSelectedImages(confirmed) ==
    /\ view = "CAMERA" /\ viewMode = "review"
    /\ Len(SelectedImages(capturedImages)) > 0
    /\ capturedImages' =
           IF confirmed
           THEN SelectSeq(capturedImages, LAMBDA img : ~img.selected)
           ELSE capturedImages
    /\ UNCHANGED <<appVars, cameraVars, screenVars, nextId, batchVars>>
    /\ UNCHANGED cropVars

\* A "Select All" that flips every entry.
AllToggled(images, select) ==
    [k \in 1..Len(images) |-> [images[k] EXCEPT !.selected = ~images[k].selected]]

\* prev.map(img => ({ ...img, selected: select }))
AllSetTo(images, select) ==
    [k \in 1..Len(images) |-> [images[k] EXCEPT !.selected = select]]

\* "Select All" / "Deselect All".
SelectAll(select) ==
    /\ view = "CAMERA" /\ viewMode = "review"
    /\ capturedImages' = AllSetTo(capturedImages, select)
    /\ UNCHANGED <<appVars, cameraVars, screenVars, nextId, batchVars>>
    /\ UNCHANGED cropVars

(***************************************************************************)
(* CropModal: the crop dialog (review mode).                               *)
(***************************************************************************)
\* A replacement that also marks the image selected, as a new capture is.
ReplaceUrlAndSelect(images, id, newUrl) ==
    [k \in 1..Len(images) |->
        IF images[k].id = id
        THEN [images[k] EXCEPT !.url = newUrl, !.selected = TRUE]
        ELSE images[k]]

\* prev.map(img => img.id === id ? { ...img, url: newUrl } : img)
ReplaceUrl(images, id, newUrl) ==
    [k \in 1..Len(images) |->
        IF images[k].id = id
        THEN [images[k] EXCEPT !.url = newUrl]
        ELSE images[k]]

\* The crop button of a tile: the dialog mounts on the image as rendered.
\* With the dialog already up, the CropModal stays mounted, keeps its
\* selection and is handed the other image.
OpenCropModal(i) ==
    /\ view = "CAMERA" /\ viewMode = "review"
    /\ i \in 1..Len(capturedImages)
    /\ capturedImages[i].url.crop < MaxCrops
    /\ cropTarget' = <<capturedImages[i]>>
    /\ IF CropModalOpen
       THEN UNCHANGED <<startPos, currentPos, isDrawing>>
       ELSE /\ startPos' = <<0, 0>>
            /\ currentPos' = <<0, 0>>
            /\ isDrawing' = FALSE
    /\ naturalSize' \in NaturalSizes(capturedImages[i].url)
    /\ alerted' = FALSE
    /\ cropCanvas' = <<>>
    /\ UNCHANGED <<isAnalyzing, error, viewMode, capturedImages>>
    /\ UNCHANGED <<appVars, cameraVars, nextId, batchVars>>

\* The mouse button goes down on the container, at the offset (ox, oy)
\* from its corner.
HandleMouseDown(ox, oy) ==
    /\ view = "CAMERA" /\ CropModalOpen /\ ~AnalyzingOverlay
    /\ 0 <= ox /\ ox < RectWidth(naturalSize)
    /\ 0 <= oy /\ oy < RectHeight(naturalSize)
    /\ startPos' = <<ox, oy>>
    /\ currentPos' = <<ox, oy>>
    /\ isDrawing' = TRUE
    /\ alerted' = FALSE
    /\ UNCHANGED <<naturalSize, cropCanvas>>
    /\ UNCHANGED <<appVars, cameraVars, screenVars, capturedImages, nextId, batchVars>>

\* The mouse moves while a drag is on.
HandleMouseMove(ox, oy) ==
    /\ view = "CAMERA" /\ CropModalOpen /\ ~AnalyzingOverlay
    /\ isDrawing
    /\ currentPos' = <<Clamp(ox, RectWidth(naturalSize)),
                       Clamp(oy, RectHeight(naturalSize))>>
    /\ alerted' = FALSE
    /\ UNCHANGED <<startPos, isDrawing, naturalSize, cropCanvas>>
    /\ UNCHANGED <<appVars, cameraVars, screenVars, capturedImages, nextId, batchVars>>

\* onMouseUp and onMouseLeave of the container.
HandleMouseUp ==
    /\ view = "CAMERA" /\ CropModalOpen /\ ~AnalyzingOverlay
    /\ isDrawing' = FALSE
    /\ alerted' = FALSE
    /\ UNCHANGED <<startPos, currentPos, naturalSize, cropCanvas>>
    /\ UNCHANGED <<appVars, cameraVars, screenVars, capturedImages, nextId, batchVars>>

\* CameraView.handleCropConfirm, the onConfirm of the dialog; the dialog
\* unmounts as cropTarget becomes null.
HandleCropConfirm(id, newUrl) ==
    /\ capturedImages' = ReplaceUrl(capturedImages, id, newUrl)
    /\ cropTarget' = <<>>
    /\ CropModalUnmount

\* "Apply Crop": CropModal.handleConfirm.  For an <img> that did not decode
\* and is laid out with no width the size check passes on NaN and
\* drawImage throws InvalidStateError: the handler ends there.
HandleConfirm ==
    /\ view = "CAMERA" /\ CropModalOpen
    /\ LET clientWidth == DisplayWidth(naturalSize)
           rect == CropRect(startPos, currentPos, naturalSize)
           newUrl == [cropTarget[1].url EXCEPT !.crop = @ + 1]
       IN  IF TooSmall(rect.w, rect.h, clientWidth)
           THEN /\ alerted' = TRUE
                /\ UNCHANGED <<startPos, currentPos, isDrawing, naturalSize>>
                /\ UNCHANGED <<cropCanvas, cropTarget, capturedImages>>
           ELSE IF clientWidth = 0
           THEN /\ alerted' = FALSE
                /\ UNCHANGED <<startPos, currentPos, isDrawing, naturalSize>>
                /\ UNCHANGED <<cropCanvas, cropTarget, capturedImages>>
           ELSE /\ cropCanvas' = <<[x |-> rect.x, y |-> rect.y,
                                    w |-> rect.w, h |-> rect.h,
                                    clientWidth |-> clientWidth,
                                    width |-> rect.w \div clientWidth,
                                    height |-> rect.h \div clientWidth]>>
                /\ HandleCropConfirm(cropTarget[1].id, newUrl)
    /\ UNCHANGED <<isAnalyzing, error, viewMode>>
    /\ UNCHANGED <<appVars, cameraVars, nextId, batchVars>>

\* "Cancel" of the crop dialog.
CropCancel ==
    /\ view = "CAMERA" /\ CropModalOpen
    /\ cropTarget' = <<>>
    /\ CropModalUnmount
    /\ UNCHANGED <<isAnalyzing, error, viewMode, capturedImages, cropCanvas>>
    /\ UNCHANGED <<appVars, cameraVars, nextId, batchVars>>

(***************************************************************************)
(* CameraView: batch analysis.                                             *)
(***************************************************************************)
\* A dispatch that ignores the selection.
ImagesToProcessIgnoringSelection(images, analyzeAll) == images

ImagesToProcess(images, analyzeAll) ==
    IF analyzeAll THEN images ELSE SelectedImages(images)

\* A dispatch without the early return.
NeverNothingToProcess(images) == FALSE

\* if (imagesToProcess.length === 0) return;
NothingToProcess(images) == Len(images) = 0

\* imagesToProcess.map(img => analyzeImageWithPi(img.url)): one pending
\* invocation per image, in request order.
Invoke(images) ==
    [i \in 1..Len(images) |->
        [id |-> images[i].id, url |-> images[i].url,
         status |-> "pending", value |-> 0]]

AllFulfilled(ps) == \A i \in 1..Len(ps) : ps[i].status = "fulfilled"
AllSettled(ps) == \A i \in 1..Len(ps) : ps[i].status # "pending"

\* Results collected as the calls complete.
ResultsInCompletionOrder(ps, order) == [k \in 1..Len(ps) |-> ps[order[k]].value]

\* What Promise.all resolves to: the values by position in the array of
\* promises; `order` is the order of completion.
Results(ps, order) == [i \in 1..Len(ps) |-> ps[i].value]

\* "Analyze Selected" (analyzeAll = FALSE) and "Analyze All".  The handler
\* sees the images of the render the click happened in.  Both buttons are
\* disabled while isAnalyzing and while they would dispatch nothing; the
\* handler is taken as callable in the latter case, where its own early
\* return decides what happens.  The model follows one batch at a time:
\* there is no dispatch while a batch left behind by an earlier CameraView
\* is pending.
HandleBatchAnalyze(analyzeAll) ==
    /\ view = "CAMERA" /\ viewMode = "review"
    /\ ~isAnalyzing
    /\ batchState # "orphaned"
    /\ LET imagesToProcess == ImagesToProcess(capturedImages, analyzeAll)
       IN  IF NothingToProcess(imagesToProcess)
           THEN UNCHANGED <<isAnalyzing, batchVars>>
           ELSE /\ isAnalyzing' = TRUE
                /\ promises' = Invoke(imagesToProcess)
                /\ settled' = <<>>
                /\ batchState' = "awaiting"
                /\ report' = <<>>
    /\ UNCHANGED <<error, viewMode, cropTarget, capturedImages>>
    /\ UNCHANGED <<appVars, cameraVars, nextId>>
    /\ UNCHANGED cropVars

\* The i-th analyzeImageWithPi call settles, fulfilled with `value` or
\* rejected, and the continuation of handleBatchAnalyze runs if this
\* settles Promise.all: the first rejection rejects it (the catch block),
\* the last fulfilment resolves it (onAnalysisComplete(results), which is
\* App.handleAnalysisComplete: the results go to the history and the
\* HISTORY view replaces CameraView).  handleBatchAnalyze ends there and
\* its array of promises with it: the calls still pending then settle
\* without running any code of the program.  For a batch whose CameraView
\* is gone, setError and setIsAnalyzing reach no component, while
\* onAnalysisComplete is still App's handler.
AnalyzeSettled(i, ok, value) ==
    /\ batchState \in {"awaiting", "orphaned"}
    /\ i \in 1..Len(promises)
    /\ promises[i].status = "pending"
    /\ settled' = Append(settled, i)
    /\ LET now == [promises EXCEPT
                      ![i].status = IF ok THEN "fulfilled" ELSE "rejected",
                      ![i].value = IF ok THEN value ELSE 0]
       IN  IF ~ok
           THEN /\ batchState' = "failed"
                /\ promises' = <<>>
                /\ IF batchState = "awaiting"
                   THEN error' = BatchError /\ isAnalyzing' = FALSE
                   ELSE UNCHANGED <<error, isAnalyzing>>
                /\ UNCHANGED <<report, appVars, cameraVars>>
                /\ UNCHANGED <<viewMode, cropTarget, capturedImages, cropVars>>
           ELSE IF AllFulfilled(now)
           THEN /\ batchState' = "delivered"
                /\ promises' = <<>>
                /\ report' = Results(now, settled')
                /\ analysisHistory' = HistoryAppended(analysisHistory, report')
                /\ view' = "HISTORY"
                /\ LeaveView
           ELSE /\ promises' = now
                /\ UNCHANGED <<batchState, report, appVars>>
                /\ UNCHANGED <<cameraVars, screenVars, capturedImages, cropVars>>
    /\ UNCHANGED nextId

Next ==
    \/ \E success \in BOOLEAN : HandleLogin(success)
    \/ HandleLogout
    \/ ProfileClick
    \/ OpenCamera
    \/ OpenHistory
    \/ BackToDashboard
    \/ HandleClearHistory
    \/ \E ids \in SUBSET Verdicts : HandleDeleteHistory(ids)
    \/ ShowReview
    \/ ShowCamera
    \/ RetryCamera
    \/ GetUserMediaResolved
    \/ GetUserMediaRejected
    \/ \E granted \in BOOLEAN : GetUserMediaLate(granted)
    \/ \E s \in 1..MaxStreams : TrackEnded(s)
    \/ CapturePhoto
    \/ \E id \in 1..MaxCaptures : ToggleImageSelection(id)
    \/ \E id \in 1..MaxCaptures, confirmed \in BOOLEAN : DeleteImage(id, confirmed)
    \/ \E confirmed \in BOOLEAN : DeleteSelectedImages(confirmed)
    \/ \E select \in BOOLEAN : SelectAll(select)
    \/ \E i \in 1..MaxCaptures : OpenCropModal(i)
    \/ \E ox \in OffsetsX, oy \in OffsetsY : HandleMouseDown(ox, oy)
    \/ \E ox \in OffsetsX, oy \in OffsetsY : HandleMouseMove(ox, oy)
    \/ HandleMouseUp
    \/ HandleConfirm
    \/ CropCancel
    \/ \E analyzeAll \in BOOLEAN : HandleBatchAnalyze(analyzeAll)
    \/ \E i \in 1..MaxCaptures, ok \in BOOLEAN, value \in Verdicts :
           AnalyzeSettled(i, ok, value)

Spec == Init /\ [][Next]_vars

(***************************************************************************)
(* The batch dispatcher on its own: a session in which the operator signs  *)
(* in, opens the camera, takes photographs, goes to review, edits the      *)
(* selection and analyses.  The removal of photographs, the crop dialog,   *)
(* the way back to camera mode and the other pages are left out.           *)
(***************************************************************************)
NextBatch ==
    \/ \E success \in BOOLEAN : HandleLogin(success)
    \/ OpenCamera
    \/ ShowReview
    \/ GetUserMediaResolved
    \/ GetUserMediaRejected
    \/ CapturePhoto
    \/ \E id \in 1..MaxCaptures : ToggleImageSelection(id)
    \/ \E select \in BOOLEAN : SelectAll(select)
    \/ \E analyzeAll \in BOOLEAN : HandleBatchAnalyze(analyzeAll)
    \/ \E i \in 1..MaxCaptures, ok \in BOOLEAN, value \in Verdicts :
           AnalyzeSettled(i, ok, value)

SpecBatch == Init /\ [][NextBatch]_vars

(***************************************************************************)
(* The capture controller on its own: navigation, the feed's life cycle    *)
(* and the shutter.  The review screen is entered and left but not used.   *)
(***************************************************************************)
NextCamera ==
    \/ \E success \in BOOLEAN : HandleLogin(success)
    \/ HandleLogout
    \/ ProfileClick
    \/ OpenCamera
    \/ BackToDashboard
    \/ ShowReview
    \/ ShowCamera
    \/ RetryCamera
    \/ GetUserMediaResolved
    \/ GetUserMediaRejected
    \/ \E granted \in BOOLEAN : GetUserMediaLate(granted)
    \/ CapturePhoto

SpecCamera == Init /\ [][NextCamera]_vars

(***************************************************************************)
(* The crop dialog on its own: a session in which the operator takes up to *)
(* MaxCropStore photographs, goes to review, selects or deselects them all *)
(* and crops, leaving the buttons beneath the open dialog alone.           *)
(***************************************************************************)
NextCrop ==
    \/ \E success \in BOOLEAN : HandleLogin(success)
    \/ OpenCamera
    \/ GetUserMediaResolved
    \/ CapturePhoto /\ Len(capturedImages) < MaxCropStore
    \/ ShowReview
    \/ \E select \in BOOLEAN : SelectAll(select) /\ ~CropModalOpen
    \/ \E i \in 1..MaxCaptures : OpenCropModal(i) /\ ~CropModalOpen
    \/ \E ox \in OffsetsX, oy \in OffsetsY : HandleMouseDown(ox, oy)
    \/ \E ox \in OffsetsX, oy \in OffsetsY : HandleMouseMove(ox, oy)
    \/ HandleMouseUp
    \/ HandleConfirm
    \/ CropCancel

SpecCrop == Init /\ [][NextCrop]_vars

(***************************************************************************)
(* The crop dialog with the buttons beneath it, which the keyboard still   *)
(* reaches while it is open.                                               *)
(***************************************************************************)
NextCropDelete ==
    \/ NextCrop
    \/ \E select \in BOOLEAN : SelectAll(select)
    \/ \E i \in 1..MaxCaptures : OpenCropModal(i)
    \/ \E id \in 1..MaxCaptures, confirmed \in BOOLEAN : DeleteImage(id, confirmed)

SpecCropDelete == Init /\ [][NextCropDelete]_vars

(***************************************************************************)
(* The image store on its own: photographs are taken, selected, deselected *)
(* and removed, over several visits to camera mode and to the screen.      *)
(***************************************************************************)
NextStore ==
    \/ \E success \in BOOLEAN : HandleLogin(success)
    \/ OpenCamera
    \/ BackToDashboard
    \/ GetUserMediaResolved
    \/ \E granted \in BOOLEAN : GetUserMediaLate(granted)
    \/ CapturePhoto
    \/ ShowReview
    \/ ShowCamera
    \/ \E id \in 1..MaxCaptures : ToggleImageSelection(id)
    \/ \E id \in 1..MaxCaptures, confirmed \in BOOLEAN : DeleteImage(id, confirmed)
    \/ \E confirmed \in BOOLEAN : DeleteSelectedImages(confirmed)
    \/ \E select \in BOOLEAN : SelectAll(select)

SpecStore == Init /\ [][NextStore]_vars

(***************************************************************************)
(* The capture controller with a camera that can go away while its stream  *)
(* runs.                                                                   *)
(***************************************************************************)
NextFeed ==
    \/ NextCamera
    \/ \E s \in 1..MaxStreams : TrackEnded(s)

SpecFeed == Init /\ [][NextFeed]_vars

(***************************************************************************)
(* The batch dispatcher with the ways out of review mode: a session in     *)
(* which the operator takes up to MaxCropStore photographs, edits the      *)
(* store, analyses, and goes back to camera mode or to the dashboard,      *)
(* also while a batch is being analysed.                                   *)
(***************************************************************************)
NextFlight ==
    \/ \E success \in BOOLEAN : HandleLogin(success)
    \/ OpenCamera
    \/ BackToDashboard
    \/ GetUserMediaResolved
    \/ CapturePhoto /\ Len(capturedImages) < MaxCropStore
    \/ ShowReview
    \/ ShowCamera
    \/ \E id \in 1..MaxCaptures : ToggleImageSelection(id)
    \/ \E id \in 1..MaxCaptures, confirmed \in BOOLEAN : DeleteImage(id, confirmed)
    \/ \E select \in BOOLEAN : SelectAll(select)
    \/ \E analyzeAll \in BOOLEAN : HandleBatchAnalyze(analyzeAll)
    \/ \E i \in 1..MaxCaptures, ok \in BOOLEAN, value \in Verdicts :
           AnalyzeSettled(i, ok, value)

SpecFlight == Init /\ [][NextFlight]_vars

(***************************************************************************)
(* The results' way into the history and out of it: sessions of taking up  *)
(* to MaxCropStore photographs and analysing them, and the history page    *)
(* with its two ways of removing records.                                  *)
(***************************************************************************)
NextHistory ==
    \/ \E success \in BOOLEAN : HandleLogin(success)
    \/ OpenCamera
    \/ OpenHistory
    \/ BackToDashboard
    \/ HandleClearHistory
    \/ \E ids \in SUBSET Verdicts : HandleDeleteHistory(ids)
    \/ GetUserMediaResolved
    \/ CapturePhoto /\ Len(capturedImages) < MaxCropStore
    \/ ShowReview
    \/ \E analyzeAll \in BOOLEAN : HandleBatchAnalyze(analyzeAll)
    \/ \E i \in 1..MaxCaptures, ok \in BOOLEAN, value \in Verdicts :
           AnalyzeSettled(i, ok, value)

SpecHistory == Init /\ [][NextHistory]_vars

(***************************************************************************)
(* The capture controller of the specification, read off the component's   *)
(* state: Error while a message is shown, Active while a stream is held,   *)
(* Idle otherwise.                                                         *)
(***************************************************************************)
ControllerState ==
    IF error # NoError THEN "Error"
    ELSE IF stream # NoStream THEN "Active"
    ELSE "Idle"

\* The analyze invocations of a batch, as (id, url) requests.
Requests(s) == [i \in 1..Len(s) |-> [id |-> s[i].id, url |-> s[i].url]]

\* The position of the image `id` in the store, 0 when it is not there.
PositionOf(id, images) ==
    IF \E k \in 1..Len(images) : images[k].id = id
    THEN CHOOSE k \in 1..Len(images) : images[k].id = id
    ELSE 0

\* A batch is in flight: handleBatchAnalyze is at its await, whether or not
\* the CameraView it runs for is still there.
InFlight(state) == state \in {"awaiting", "orphaned"}

\* The ids in the store, as a set.
IdSet(images) == {images[k].id : k \in 1..Len(images)}

\* The entry of the image `id`, which is in the store.
Entry(id, images) == images[PositionOf(id, images)]

(***************************************************************************)
(* C1 (as claimed): one image's failed analysis does not keep the others'  *)
(* outcomes from being reported: a batch in which an invocation has        *)
(* succeeded ends with the report handed to the consumer, one outcome per  *)
(* image and the successful image's result at its place, whatever the      *)
(* other invocations do.                                                   *)
(***************************************************************************)
C1_FailureIsolated ==
    [][ (batchState = "awaiting" /\ batchState' # "awaiting")
            => \A a \in 1..Len(promises) :
                   promises[a].status = "fulfilled"
                       => /\ batchState' = "delivered"
                          /\ Len(report') = Len(promises)
                          /\ report'[a] = promises[a].value
      ]_vars

(***************************************************************************)
(* C2 (as claimed): a dispatch produces its result, the report or the      *)
(* recorded failure, only when every analyze invocation of the batch has   *)
(* settled: at the step that ends it, the invocation settling is the only  *)
(* one that was pending.                                                   *)
(***************************************************************************)
C2_ResultAfterAllSettled ==
    [][ (batchState = "awaiting" /\ batchState' \in {"delivered", "failed"})
            => Cardinality({i \in 1..Len(promises) :
                               promises[i].status = "pending"}) = 1
      ]_vars

(***************************************************************************)
(* C3: the i-th outcome of a delivered report is the outcome of the i-th   *)
(* dispatched image, whatever the order of completion.                     *)
(***************************************************************************)
C3_ReportInRequestOrder ==
    [][ (batchState = "awaiting" /\ batchState' = "delivered")
            => /\ Len(report') = Len(promises)
               /\ \A i \in 1..Len(promises) :
                      IF promises[i].status = "fulfilled"
                      THEN report'[i] = promises[i].value
                      ELSE \E value \in Verdicts :
                               /\ AnalyzeSettled(i, TRUE, value)
                               /\ report'[i] = value
      ]_vars

\* A batch of two or more delivered, completed in another order than it was
\* requested in, with results that differ.
C3_Witness ==
    /\ batchState = "delivered"
    /\ Len(report) >= 2
    /\ Len(settled) = Len(report)
    /\ settled[1] # 1
    /\ report[1] # report[2]

(***************************************************************************)
(* C4 (as claimed): the batch-level failure is never reported for a batch  *)
(* whose dispatch ran and in which a per-image analyze call failed.        *)
(***************************************************************************)
C4_BatchFailedOnlyWhenNotAttempted ==
    [][ (\E i \in 1..Len(promises), value \in Verdicts :
             AnalyzeSettled(i, FALSE, value))
            => ~(batchState' = "failed" /\ error' = BatchError)
      ]_vars

(***************************************************************************)
(* C5 (as claimed): from the dispatch of a batch to its batch-level        *)
(* failure no step changes the image store, and at the failure the         *)
(* analyzing flag is down and the images the batch was made of are again   *)
(* what "analyze selected" or "analyze all" would dispatch.                *)
(***************************************************************************)
C5_StoreUntouchedByBatchFailure ==
    [][ /\ ( /\ batchState' \in {"awaiting", "failed"}
             /\ batchState = "awaiting" \/ batchState' = "awaiting" )
           => capturedImages' = capturedImages
        /\ (batchState = "awaiting" /\ batchState' = "failed")
           => /\ ~isAnalyzing'
              /\ \E analyzeAll \in BOOLEAN :
                     Requests(promises) =
                         Requests(ImagesToProcess(capturedImages', analyzeAll))
      ]_vars

(***************************************************************************)
(* C6: a dispatch over no image (nothing selected for "analyze selected",  *)
(* an empty store for "analyze all") changes nothing: no analyze           *)
(* invocation, no analyzing flag, no report, no other state.               *)
(***************************************************************************)
C6_EmptyDispatchIsNoOp ==
    [][ \A analyzeAll \in BOOLEAN :
            ( /\ HandleBatchAnalyze(analyzeAll)
              /\ \A k \in 1..Len(capturedImages) :
                     ~analyzeAll /\ ~capturedImages[k].selected )
                => UNCHANGED vars
      ]_vars

\* The review screen with photographs of which none is selected, free for
\* a click on "Analyze Selected"; no batch was dispatched.
C6_Witness ==
    /\ view = "CAMERA" /\ viewMode = "review" /\ ScreenFree
    /\ Len(capturedImages) >= 2
    /\ \A k \in 1..Len(capturedImages) : ~capturedImages[k].selected
    /\ batchState = "idle" /\ ~isAnalyzing /\ promises = <<>>

(***************************************************************************)
(* C7: "analyze selected" invokes analyze exactly once for each image      *)
(* selected at that time and for no other image, in store order, and a     *)
(* delivered report has one outcome per invocation.                        *)
(***************************************************************************)
C7_SelectedSubsetDispatched ==
    [][ /\ ( /\ HandleBatchAnalyze(FALSE)
             /\ \E k \in 1..Len(capturedImages) : capturedImages[k].selected )
           => /\ \A k \in 1..Len(capturedImages) :
                     Cardinality({j \in 1..Len(promises') :
                         /\ promises'[j].id = capturedImages[k].id
                         /\ promises'[j].url = capturedImages[k].url
                         /\ promises'[j].status = "pending"})
                       = IF capturedImages[k].selected THEN 1 ELSE 0
              /\ \A j \in 1..Len(promises') :
                     PositionOf(promises'[j].id, capturedImages) # 0
              /\ \A j1, j2 \in 1..Len(promises') :
                     j1 < j2 => PositionOf(promises'[j1].id, capturedImages)
                                  < PositionOf(promises'[j2].id, capturedImages)
        /\ (batchState = "awaiting" /\ batchState' = "delivered")
           => Len(report') = Len(promises)
      ]_vars

\* Three photographs, the first and the third selected, and a batch in
\* flight for exactly these two.
C7_Witness ==
    /\ batchState = "awaiting"
    /\ Len(capturedImages) = 3
    /\ capturedImages[1].selected
    /\ ~capturedImages[2].selected
    /\ capturedImages[3].selected
    /\ Requests(promises) = <<[id |-> capturedImages[1].id, url |-> capturedImages[1].url],
                               [id |-> capturedImages[3].id, url |-> capturedImages[3].url]>>

(***************************************************************************)
(* C8 (as claimed): the feed is released on every way out of Active: in    *)
(* review mode, while an error is shown and once the screen is gone, no    *)
(* stream handed out by getUserMedia has running tracks.                   *)
(***************************************************************************)
C8_FeedReleasedOnEveryExit ==
    (view # "CAMERA" \/ viewMode = "review" \/ error # NoError)
        => liveStreams = {}

(***************************************************************************)
(* C9 (as claimed): a snapshot outside Active (Idle or Error) leaves the   *)
(* image store unchanged.                                                  *)
(***************************************************************************)
C9_SnapshotOnlyWhenActive ==
    [][ (CapturePhoto /\ ControllerState # "Active")
            => capturedImages' = capturedImages ]_vars

(***************************************************************************)
(* C10 (as claimed): from Error, an acquisition that succeeds leaves the   *)
(* controller Active with the acquired, running stream attached to the     *)
(* preview element.                                                        *)
(***************************************************************************)
C10_RetryAttachesFeed ==
    [][ (GetUserMediaResolved /\ viewMode = "camera" /\ ControllerState = "Error")
            => /\ ControllerState' = "Active"
               /\ stream' \in liveStreams'
               /\ videoSrc' = stream' ]_vars

(***************************************************************************)
(* C11 (as claimed): whenever an acquisition fails or the feed the         *)
(* controller holds becomes unavailable, the controller is in Error with a *)
(* message as the cause, and a controller in Error stays there, as long as *)
(* the screen is up, until an acquisition succeeds.                        *)
(***************************************************************************)
C11_ErrorOnFailureUntilRetry ==
    [][ /\ (GetUserMediaRejected \/ (stream # NoStream /\ TrackEnded(stream)))
           => (ControllerState' = "Error" /\ error' \in {CameraError, BatchError})
        /\ (ControllerState = "Error" /\ view' = "CAMERA"
                /\ ControllerState' # "Error")
           => GetUserMediaResolved
      ]_vars

C13_AbsentIdReportedNotFound ==
    (view = "CAMERA" /\ viewMode = "review")
        => \A id \in (1..nextId) \ IdSet(capturedImages) :
               /\ Toggled(capturedImages, id) = capturedImages
               /\ ToggleImageSelectionReport(capturedImages, id) = "NotFound"
               /\ \A feed \in 0..MaxStreams :
                      LET newUrl == [feed |-> feed, crop |-> 1]
                      IN  /\ ReplaceUrl(capturedImages, id, newUrl) = capturedImages
                          /\ HandleCropConfirmReport(capturedImages, id, newUrl)
                                 = "NotFound"

(***************************************************************************)
(* C14: "Apply Crop" on a selection whose native width or native height    *)
(* (the displayed extent times naturalWidth / clientWidth) is below 50     *)
(* ends in the alert "Selection too small" and changes nothing else: the   *)
(* store, the dialog and its target stay as they are.                      *)
(***************************************************************************)
C14_SmallSelectionRejected ==
    [][ ( /\ HandleConfirm
          /\ DisplayWidth(naturalSize) > 0
          /\ \/ Abs(currentPos[1] - startPos[1]) * naturalSize[1]
                    < 50 * DisplayWidth(naturalSize)
             \/ Abs(currentPos[2] - startPos[2]) * naturalSize[1]
                    < 50 * DisplayWidth(naturalSize) )
            => /\ alerted'
               /\ capturedImages' = capturedImages
               /\ cropTarget' = cropTarget
               /\ UNCHANGED <<startPos, currentPos, isDrawing, naturalSize, cropCanvas>>
      ]_vars

\* The alert is up for a selection as wide as the container and not high
\* enough, and the image in the store is the one the dialog was opened on.
C14_Witness ==
    /\ alerted
    /\ CropModalOpen
    /\ Abs(currentPos[1] - startPos[1]) = RectWidth(naturalSize)
    /\ Abs(currentPos[2] - startPos[2]) > 0
    /\ Abs(currentPos[2] - startPos[2]) * naturalSize[1] < 50 * DisplayWidth(naturalSize)
    /\ Entry(cropTarget[1].id, capturedImages) = cropTarget[1]

(***************************************************************************)
(* C15: a crop that is applied to an image that is in the store replaces   *)
(* the buffer of that image and nothing else in the store: the store keeps *)
(* its length, every entry its place, its id and its selected flag, and    *)
(* every other entry its buffer too.                                       *)
(***************************************************************************)
C15_CropReplacesOnlyBuffer ==
    [][ ( /\ CropModalOpen /\ cropCanvas' # <<>> /\ cropCanvas' # cropCanvas
          /\ cropTarget[1].id \in IdSet(capturedImages) )
            => LET id == cropTarget[1].id
               IN  /\ Len(capturedImages') = Len(capturedImages)
                   /\ \A k \in 1..Len(capturedImages) :
                          /\ capturedImages'[k].id = capturedImages[k].id
                          /\ capturedImages'[k].selected = capturedImages[k].selected
                          /\ IF capturedImages[k].id = id
                             THEN capturedImages'[k].url # capturedImages[k].url
                             ELSE capturedImages'[k].url = capturedImages[k].url
      ]_vars

\* Two photographs, none selected; the second has been cropped and the
\* first has not.
C15_Witness ==
    /\ cropCanvas # <<>>
    /\ ~CropModalOpen
    /\ Len(capturedImages) = 2
    /\ capturedImages[1].url.crop = 0 /\ ~capturedImages[1].selected
    /\ capturedImages[2].url.crop = 1 /\ ~capturedImages[2].selected

(***************************************************************************)
(* C16: toggleSelection is its own inverse: for every store of the review  *)
(* screen and every id in it, toggling that id twice gives back the store  *)
(* as it was, and toggling it once flips the selected flag of that entry   *)
(* and of no other.                                                        *)
(***************************************************************************)
C16_ToggleTwiceIsIdentity ==
    (view = "CAMERA" /\ viewMode = "review")
        => \A id \in IdSet(capturedImages) :
               /\ Toggled(Toggled(capturedImages, id), id) = capturedImages
               /\ Entry(id, Toggled(capturedImages, id)).selected
                      = ~Entry(id, capturedImages).selected
               /\ \A other \in IdSet(capturedImages) \ {id} :
                      Entry(other, Toggled(capturedImages, id))
                          = Entry(other, capturedImages)

\* A store of three in which a click has deselected the second photograph.
C16_Witness ==
    /\ view = "CAMERA" /\ viewMode = "review"
    /\ Len(capturedImages) = 3
    /\ capturedImages[1].selected
    /\ ~capturedImages[2].selected
    /\ capturedImages[3].selected

(***************************************************************************)
(* C17: deletion is idempotent: for every store of the review screen and   *)
(* every id, removing an id that is not in the store leaves the store as   *)
(* it is, and removing an id twice leaves what removing it once leaves, a  *)
(* store without that id.                                                  *)
(***************************************************************************)
C17_DeleteIsIdempotent ==
    (view = "CAMERA" /\ viewMode = "review")
        => \A id \in 1..MaxCaptures :
               /\ id \notin IdSet(capturedImages)
                      => Without(capturedImages, id) = capturedImages
               /\ Without(Without(capturedImages, id), id)
                      = Without(capturedImages, id)
               /\ id \notin IdSet(Without(capturedImages, id))

\* The first of three photographs has been deleted; the other two are in
\* the store.
C17_Witness ==
    /\ view = "CAMERA" /\ viewMode = "review"
    /\ nextId = 3
    /\ Ids(capturedImages) = <<2, 3>>

(***************************************************************************)
(* C18 (as claimed): the selection of the crop dialog, x = min and y = min *)
(* of the two drag points with w and h their distances, lies within the    *)
(* displayed image: x and y are not negative, and x + w and y + h do not   *)
(* exceed the width and the height the image is displayed at.              *)
(***************************************************************************)
C18_SelectionWithinImage ==
    CropModalOpen
        => /\ Min(startPos[1], currentPos[1]) >= 0
           /\ Min(startPos[2], currentPos[2]) >= 0
           /\ Min(startPos[1], currentPos[1]) + Abs(currentPos[1] - startPos[1])
                  <= DisplayWidth(naturalSize)
           /\ Min(startPos[2], currentPos[2]) + Abs(currentPos[2] - startPos[2])
                  <= DisplayHeight(naturalSize)

(***************************************************************************)
(* C19: the rectangle a crop cuts out is the selection multiplied by       *)
(* naturalWidth / clientWidth, the same factor for x, y, width and height. *)
(***************************************************************************)
C19_NativeRectIsScaledSelection ==
    [][ (CropModalOpen /\ cropCanvas' # <<>> /\ cropCanvas' # cropCanvas)
            => LET c == cropCanvas'[1]
                   naturalWidth == naturalSize[1]
               IN  /\ c.clientWidth = DisplayWidth(naturalSize)
                   /\ c.clientWidth > 0
                   /\ c.x = Min(startPos[1], currentPos[1]) * naturalWidth
                   /\ c.y = Min(startPos[2], currentPos[2]) * naturalWidth
                   /\ c.w = Abs(currentPos[1] - startPos[1]) * naturalWidth
                   /\ c.h = Abs(currentPos[2] - startPos[2]) * naturalWidth
      ]_vars

\* A crop has been cut out away from the corner, with a height that is not
\* a whole number of native pixels.
C19_Witness ==
    /\ cropCanvas # <<>>
    /\ cropCanvas[1].x > 0
    /\ cropCanvas[1].y > 0
    /\ cropCanvas[1].h % cropCanvas[1].clientWidth # 0
    /\ cropCanvas[1].clientWidth # VideoWidth

(***************************************************************************)
(* C20 (as claimed): a crop whose selection covers the whole displayed     *)
(* image cuts out the rectangle (0, 0, naturalWidth, naturalHeight) into a *)
(* canvas of the image's own size.                                         *)
(***************************************************************************)
C20_FullSelectionIsNoOp ==
    [][ ( /\ CropModalOpen /\ cropCanvas' # <<>> /\ cropCanvas' # cropCanvas
          /\ Min(startPos[1], currentPos[1]) <= BorderWidth
          /\ Min(startPos[2], currentPos[2]) <= BorderWidth
          /\ Max(startPos[1], currentPos[1]) >= BorderWidth + DisplayWidth(naturalSize)
          /\ Max(startPos[2], currentPos[2]) >= BorderWidth + DisplayHeight(naturalSize) )
            => LET c == cropCanvas'[1]
               IN  /\ c.x = 0 /\ c.y = 0
                   /\ c.w = naturalSize[1] * c.clientWidth
                   /\ c.h = naturalSize[2] * c.clientWidth
                   /\ c.width = naturalSize[1]
                   /\ c.height = naturalSize[2]
      ]_vars

(***************************************************************************)
(* C21: "Select All" and "Deselect All" leave every entry of the store     *)
(* with selected equal to the value asked for, and leave the number and    *)
(* order of the entries and every id and buffer as they were.              *)
(***************************************************************************)
C21_SelectAllSetsEveryFlag ==
    [][ \A select \in BOOLEAN :
            SelectAll(select)
                => /\ Len(capturedImages') = Len(capturedImages)
                   /\ \A k \in 1..Len(capturedImages) :
                          /\ capturedImages'[k].selected = select
                          /\ capturedImages'[k].id = capturedImages[k].id
                          /\ capturedImages'[k].url = capturedImages[k].url
      ]_vars

\* Three photographs with different frames, none selected.
C21_Witness ==
    /\ view = "CAMERA" /\ viewMode = "review"
    /\ Len(capturedImages) = 3
    /\ capturedImages[1].url.feed # capturedImages[3].url.feed
    /\ \A k \in 1..3 : ~capturedImages[k].selected

C23_OneOutcomePerBatch ==
    [][ /\ (InFlight(batchState) /\ ~InFlight(batchState'))
               => LET delivered == /\ batchState' = "delivered"
                                   /\ Len(report') = Len(promises)
                                   /\ analysisHistory' = analysisHistory \o report'
                      failed == /\ error' = BatchError
                                /\ ~isAnalyzing'
                  IN  delivered # failed
        /\ InFlight(batchState') => isAnalyzing'
      ]_vars

(***************************************************************************)
(* C24 (as claimed): while the CameraView awaits a batch, no step starts   *)
(* another dispatch and no step changes the image store, so the store is   *)
(* the one the batch was made from for as long as the batch is in flight.  *)
(***************************************************************************)
C24_StoreFrozenInFlight ==
    [][ (batchState = "awaiting" /\ view' = "CAMERA")
            => /\ capturedImages' = capturedImages
               /\ \A analyzeAll \in BOOLEAN :
                      ~(HandleBatchAnalyze(analyzeAll) /\ promises' # promises)
      ]_vars

(***************************************************************************)
(* C25 (as claimed): acquisitions that overlap leave one feed running: if  *)
(* the only stream with running tracks is the one held in state, that is   *)
(* still so once a getUserMedia call of the CameraView has resolved.       *)
(***************************************************************************)
C25_OneLiveFeed ==
    [][ (GetUserMediaResolved /\ liveStreams \subseteq {stream})
            => /\ liveStreams' \subseteq {stream'}
               /\ Cardinality(liveStreams') <= 1
      ]_vars

(***************************************************************************)
(* C26 (as claimed): a failed batch leaves the camera as it would be       *)
(* without it: back in camera mode after the failure, a getUserMedia call  *)
(* that resolves gives an Active controller with the acquired stream       *)
(* attached to the preview.                                                *)
(***************************************************************************)
C26_CameraUndisturbedByBatchFailure ==
    [][ (GetUserMediaResolved /\ viewMode = "camera" /\ error = BatchError)
            => /\ ControllerState' = "Active"
               /\ videoSrc' = stream'
      ]_vars

(***************************************************************************)
(* C27 (as claimed): while the crop dialog is open its target is an entry  *)
(* of the store, with the id and the buffer the dialog shows; a crop that  *)
(* is applied changes exactly one entry; "Cancel" closes the dialog and    *)
(* leaves the store as it is.                                              *)
(***************************************************************************)
C27_CropTargetIsLive ==
    [][ /\ CropModalOpen'
               => \E k \in 1..Len(capturedImages') :
                      /\ capturedImages'[k].id = cropTarget'[1].id
                      /\ capturedImages'[k].url = cropTarget'[1].url
        /\ (HandleConfirm /\ cropTarget' = <<>>)
               => /\ Len(capturedImages') = Len(capturedImages)
                  /\ Cardinality({k \in 1..Len(capturedImages) :
                                     capturedImages'[k] # capturedImages[k]}) = 1
        /\ CropCancel
               => /\ capturedImages' = capturedImages
                  /\ ~CropModalOpen'
      ]_vars

(***************************************************************************)
(* C28 (as claimed): the rectangle an applied crop hands to drawImage lies *)
(* inside the image: x >= 0, y >= 0, x + w <= naturalWidth and             *)
(* y + h <= naturalHeight.                                                 *)
(***************************************************************************)
C28_NativeRectInsideFrame ==
    [][ (CropModalOpen /\ cropCanvas' # <<>> /\ cropCanvas' # cropCanvas)
            => LET c == cropCanvas'[1]
               IN  /\ c.x >= 0
                   /\ c.y >= 0
                   /\ c.x + c.w <= naturalSize[1] * c.clientWidth
                   /\ c.y + c.h <= naturalSize[2] * c.clientWidth
      ]_vars

(***************************************************************************)
(* C29: the step that delivers a batch puts its results after the history  *)
(* there was, in report order, and shows the HISTORY view; any other step  *)
(* leaves the history as it is, except clear-all, which empties it, and    *)
(* the deletion of ids, which takes out the records with those ids and     *)
(* keeps the others in their order.                                        *)
(***************************************************************************)
C29_HistoryAppendOnly ==
    [][ IF InFlight(batchState) /\ batchState' = "delivered"
        THEN /\ Len(analysisHistory') = Len(analysisHistory) + Len(report')
             /\ SubSeq(analysisHistory', 1, Len(analysisHistory)) = analysisHistory
             /\ \A k \in 1..Len(report') :
                    analysisHistory'[Len(analysisHistory) + k] = report'[k]
             /\ Len(report') = Len(promises)
             /\ view' = "HISTORY"
        ELSE \/ analysisHistory' = analysisHistory
             \/ HandleClearHistory /\ analysisHistory' = <<>>
             \/ \E ids \in SUBSET Verdicts :
                    /\ HandleDeleteHistory(ids)
                    /\ \A k \in 1..Len(analysisHistory') :
                           ResultId(analysisHistory'[k]) \notin ids
                    /\ \E keep \in SUBSET (1..Len(analysisHistory)) :
                           /\ \A k \in 1..Len(analysisHistory) :
                                  k \in keep <=> ResultId(analysisHistory[k]) \notin ids
                           /\ Len(analysisHistory') = Cardinality(keep)
                           /\ \A k \in keep :
                                  analysisHistory'[Cardinality({j \in keep : j <= k})]
                                      = analysisHistory[k]
      ]_vars

\* A second batch, of two photographs, has been delivered after a first one
\* of one, with results that differ, and the history page shows the three.
C29_Witness ==
    /\ view = "HISTORY"
    /\ batchState = "delivered"
    /\ Len(report) = 2
    /\ Len(analysisHistory) = 3
    /\ analysisHistory[1] # analysisHistory[2]
    /\ analysisHistory[2] # analysisHistory[3]
====
